---- MODULE Spec2Model ----
(***************************************************************************)
(* Model of the milagros births pipeline:                                  *)
(*   - Landing Stage   (src/src/ingestion/milagros/births/milagros.py)     *)
(*   - Transformation Stage and clean_col                                  *)
(*                     (src/src/silver/milagros/silver_milagros.py)        *)
(*                                                                         *)
(* One ingest_date partition is modelled: every path of both stages is     *)
(* built from the partition key, so partitions never interact.             *)
(*                                                                         *)
(* Text is a sequence of character tokens.  A token is a one-character     *)
(* string for ASCII characters and a named token for the others            *)
(* ("ntilde" = U+00F1, "comb_tilde" = U+0303, ...).                        *)
(***************************************************************************)
EXTENDS Integers, Sequences, FiniteSets, TLC

VARIABLES
    \* ---- clean_col driver ----
    cname,        \* a raw header string handed to clean_col
    cleaned,      \* clean_col(cname)
    recleaned,    \* clean_col(cleaned)
    cpc,          \* "raw" -> "once" -> "twice"
    \* ---- raw landing partition {raw_base}/ingest_date={date}/ ----
    rawDir,       \* file name -> file state
    rawMarker,    \* the raw _SUCCESS marker exists
    lpc,          \* position of the Landing Stage run
    lname,        \* source_xlsx_path.name of the current / last landing run
    lsrc,         \* content of the source file being copied
    lout,         \* how the last landing run ended
    \* ---- silver partition {silver_base}/ingest_date={date}/ ----
    parquet,      \* state of milagros_hgm.parquet
    silverMarker, \* the silver _SUCCESS marker exists
    spc,          \* position of the Transformation Stage run
    df,           \* the in-memory DataFrame of the run
    sout          \* how the last transformation run ended

vars == << cname, cleaned, recleaned, cpc,
           rawDir, rawMarker, lpc, lname, lsrc, lout,
           parquet, silverMarker, spc, df, sout >>

cleanVars   == << cname, cleaned, recleaned, cpc >>
landingVars == << rawDir, rawMarker, lpc, lname, lsrc, lout >>
silverVars  == << parquet, silverMarker, spc, df, sout >>

(***************************************************************************)
(* Characters                                                              *)
(***************************************************************************)
LowerAscii == { "a","b","c","d","e","f","g","h","i","j","k","l","m",
                "n","o","p","q","r","s","t","u","v","w","x","y","z" }
Digits     == { "0","1","2","3","4","5","6","7","8","9" }
\* str.strip() and the regex class \s: space, tab, no-break space (U+00A0)
Whitespace == { " ", "tab", "nbsp" }
\* unicodedata.combining(ch) > 0
Combining  == { "comb_tilde", "comb_diaeresis" }

\* str.lower() on one character.  "bl_H" is U+210C (BLACK-LETTER CAPITAL H),
\* which has no lowercase mapping.
LowerChar(ch) ==
    CASE ch = "A" -> "a"  [] ch = "E" -> "e"  [] ch = "H" -> "h"
      [] ch = "M" -> "m"  [] ch = "N" -> "n"  [] ch = "O" -> "o"
      [] ch = "R" -> "r"  [] ch = "S" -> "s"  [] ch = "U" -> "u"
      [] ch = "NTILDE" -> "ntilde"
      [] OTHER -> ch

\* unicodedata.normalize("NFKD", ch) on one character
NFKDChar(ch) ==
    CASE ch = "ntilde"    -> << "n", "comb_tilde" >>
      [] ch = "NTILDE"    -> << "N", "comb_tilde" >>
      [] ch = "diaeresis" -> << " ", "comb_diaeresis" >>   \* U+00A8
      [] ch = "sup2"      -> << "2" >>                     \* U+00B2
      [] ch = "nbsp"      -> << " " >>
      [] ch = "bl_H"      -> << "H" >>
      [] OTHER            -> << ch >>

RECURSIVE LStrip(_, _)
LStrip(s, drop) ==
    IF s # << >> /\ Head(s) \in drop THEN LStrip(Tail(s), drop) ELSE s

RECURSIVE RStrip(_, _)
RStrip(s, drop) ==
    IF s # << >> /\ s[Len(s)] \in drop
    THEN RStrip(SubSeq(s, 1, Len(s) - 1), drop) ELSE s

\* str.strip(chars)
StripChars(s, drop) == RStrip(LStrip(s, drop), drop)

\* str.lower()
Lower(s) == [i \in 1..Len(s) |-> LowerChar(s[i])]

\* unicodedata.normalize("NFKD", s)
RECURSIVE NFKD(_)
NFKD(s) == IF s = << >> THEN << >> ELSE NFKDChar(Head(s)) \o NFKD(Tail(s))

\* "".join(ch for ch in name if not unicodedata.combining(ch))
DropCombining(s) == SelectSeq(s, LAMBDA ch : ch \notin Combining)

\* re.sub(r"<class>+", "_", s): every maximal run of characters of cls
\* becomes one underscore
RECURSIVE SubRuns(_, _)
SubRuns(s, cls) ==
    IF s = << >> THEN << >>
    ELSE IF Head(s) \in cls
         THEN << "_" >> \o SubRuns(LStrip(s, cls), cls)
         ELSE << Head(s) >> \o SubRuns(Tail(s), cls)

\* re.sub(r"[^a-z0-9_]", "", s)
DeleteNonWord(s) ==
    SelectSeq(s, LAMBDA ch : ch \in LowerAscii \cup Digits \cup {"_"})

\* A plausible slip of clean_col: the final strip("_") is forgotten.
clean_col_NoFinalStrip(name) ==
    SubRuns(DeleteNonWord(SubRuns(DropCombining(NFKD(Lower(
        StripChars(name, Whitespace)))), Whitespace)), {"_"})

clean_col(name) ==
    LET s1 == Lower(StripChars(name, Whitespace))
        s2 == NFKD(s1)
        s3 == DropCombining(s2)
        s4 == SubRuns(s3, Whitespace)
        s5 == DeleteNonWord(s4)
        s6 == SubRuns(s5, {"_"})
    IN  StripChars(s6, {"_"})

(***************************************************************************)
(* Column names used by main() of silver_milagros.py                       *)
(***************************************************************************)
N_ano ==
    << "a", "n", "o" >>
N_periodo_de_reporte ==
    << "p", "e", "r", "i", "o", "d", "o", "_", "d", "e", "_", "r", "e", "p", "o", "r", "t", "e" >>
N_sexo ==
    << "s", "e", "x", "o" >>
N_fecha_nacimiento ==
    << "f", "e", "c", "h", "a", "_", "n", "a", "c", "i", "m", "i", "e", "n", "t", "o" >>
N_edad_madre ==
    << "e", "d", "a", "d", "_", "m", "a", "d", "r", "e" >>
N_municipio_residencia ==
    << "m", "u", "n", "i", "c", "i", "p", "i", "o", "_", "r", "e", "s", "i", "d", "e", "n", "c", "i", "a" >>
N_edad_padre ==
    << "e", "d", "a", "d", "_", "p", "a", "d", "r", "e" >>
N_nivel_educativo_madre ==
    << "n", "i", "v", "e", "l", "_", "e", "d", "u", "c", "a", "t", "i", "v", "o", "_", "m", "a", "d", "r", "e" >>
N_nivel_educativo_padre ==
    << "n", "i", "v", "e", "l", "_", "e", "d", "u", "c", "a", "t", "i", "v", "o", "_", "p", "a", "d", "r", "e" >>
N_profesion_certificador ==
    << "p", "r", "o", "f", "e", "s", "i", "o", "n", "_", "c", "e", "r", "t", "i", "f", "i", "c", "a", "d", "o", "r" >>

int_cols == << N_ano, N_periodo_de_reporte >>
age_cols == << N_edad_madre, N_edad_padre >>
cat_cols == << N_sexo, N_nivel_educativo_madre, N_nivel_educativo_padre,
               N_profesion_certificador >>
required_cols == << N_ano, N_periodo_de_reporte, N_sexo, N_fecha_nacimiento,
                    N_edad_madre, N_municipio_residencia, N_edad_padre >>

\* the argument of c.startswith("unnamed")
UnnamedPrefix == << "u", "n", "n", "a", "m", "e", "d" >>

\* the range limits of the sanity checks
EdadMadreMin == 10
EdadMadreMax == 60
AnoMin == 2000
AnoMax == 2035

Range(s) == { s[i] : i \in 1..Len(s) }
StartsWith(s, p) == Len(s) >= Len(p) /\ SubSeq(s, 1, Len(p)) = p

(***************************************************************************)
(* Cells and columns                                                       *)
(*                                                                         *)
(* A cell is one of                                                        *)
(*   [k |-> "int",  v |-> n]       a number with an integer value          *)
(*   [k |-> "frac"]                a number with a fractional part (34.5)  *)
(*   [k |-> "str",  pad, body]     text: body, with surrounding whitespace *)
(*                                 when pad; body is "empty", "word"       *)
(*                                 (letters), "fractxt" ("34.5") or        *)
(*                                 "digits" (the decimal text of v)        *)
(*   [k |-> "na"]                  missing (NaN / None / pd.NA)            *)
(* A column of the DataFrame is [name, dtype, cells].                      *)
(***************************************************************************)
IntCell(n)  == [k |-> "int", v |-> n]
FracCell    == [k |-> "frac"]
NA          == [k |-> "na"]
StrCell(pad, body) == [k |-> "str", pad |-> pad, body |-> body]
EmptyBody   == [t |-> "empty"]
WordBody    == [t |-> "word"]
FracBody    == [t |-> "fractxt"]
DigitsBody(n) == [t |-> "digits", v |-> n]

IsNA(c) == c.k = "na"

\* the dtype pandas infers for a column read by read_excel
InferDtype(cells) ==
    IF \E i \in 1..Len(cells) : cells[i].k = "str" THEN "object"
    ELSE IF \E i \in 1..Len(cells) : cells[i].k \in {"frac", "na"} THEN "float64"
    ELSE "int64"

\* the header pandas gives the i-th column (0-based) when its header cell is
\* empty: "Unnamed: i"
UnnamedHeader(i) ==
    << "U", "n", "n", "a", "m", "e", "d", ":", " " >>
        \o << CASE i = 0 -> "0" [] i = 1 -> "1" [] i = 2 -> "2" [] i = 3 -> "3"
                [] i = 4 -> "4" [] i = 5 -> "5" [] i = 6 -> "6" [] i = 7 -> "7"
                [] i = 8 -> "8" [] OTHER -> "9" >>

\* pd.read_excel(raw_file, sheet_name="Nacimientos") on a complete workbook:
\* row order and header names are kept
read_excel(sheet) ==
    [i \in 1..Len(sheet) |->
        [ name  |-> IF sheet[i].header = << >> THEN UnnamedHeader(i - 1)
                    ELSE sheet[i].header,
          dtype |-> InferDtype(sheet[i].cells),
          cells |-> sheet[i].cells ]]

Columns(d) == [i \in 1..Len(d) |-> d[i].name]
HasCol(d, n) == \E i \in 1..Len(d) : d[i].name = n
\* df[c] for a column name that occurs once
Col(d, n) == d[CHOOSE i \in 1..Len(d) : d[i].name = n]
HasDuplicateNames(d) ==
    \E i, j \in 1..Len(d) : i # j /\ d[i].name = d[j].name

\* df.columns = [clean_col(c) for c in df.columns]
NormalizeSchema(d) ==
    [i \in 1..Len(d) |-> [d[i] EXCEPT !.name = clean_col(d[i].name)]]

\* Series.astype("string") on one cell
AsStringCell(c) ==
    CASE c.k = "int"  -> StrCell(FALSE, DigitsBody(c.v))
      [] c.k = "frac" -> StrCell(FALSE, FracBody)
      [] OTHER        -> c

\* Series.str.strip() on one cell
StrStripCell(c) == IF c.k = "str" THEN [c EXCEPT !.pad = FALSE] ELSE c

\* df.replace({"": pd.NA}) on one cell
ReplaceEmptyCell(c) ==
    IF c.k = "str" /\ ~c.pad /\ c.body = EmptyBody THEN NA ELSE c

\* lines 127-163 on one column: trim the object columns, then "" -> NA
StandardizeColumn(col) ==
    LET trimmed ==
            IF col.dtype = "object"
            THEN [col EXCEPT !.dtype = "string",
                             !.cells = [r \in 1..Len(col.cells) |->
                                 StrStripCell(AsStringCell(col.cells[r]))]]
            ELSE col
    IN  [trimmed EXCEPT !.cells = [r \in 1..Len(trimmed.cells) |->
                                      ReplaceEmptyCell(trimmed.cells[r])]]

\* df[c].dtype raises AttributeError when the name c occurs twice (df[c] is
\* then a DataFrame)
StandardizeValues(d) ==
    IF HasDuplicateNames(d)
    THEN [ok |-> FALSE, err |-> "AttributeError", df |-> d]
    ELSE [ok |-> TRUE, err |-> "none",
          df |-> [i \in 1..Len(d) |-> StandardizeColumn(d[i])]]

\* unnamed_cols = [c for c in df.columns if c.startswith("unnamed")];
\* df.drop(columns=unnamed_cols)
DropUnnamed(d) ==
    SelectSeq(d, LAMBDA col : ~StartsWith(col.name, UnnamedPrefix))

\* pd.to_numeric(..., errors="coerce") on one cell: text that is no number
\* becomes missing
ToNumericCell(c) ==
    CASE c.k = "str" /\ c.body.t = "digits"  -> IntCell(c.body.v)
      [] c.k = "str" /\ c.body.t = "fractxt" -> FracCell
      [] c.k = "str"                         -> NA
      [] OTHER                               -> c

\* .astype("Int64") raises TypeError (cannot safely cast non-equivalent
\* float64 to int64) when a value has a fractional part
CastRaises(cells) == \E r \in 1..Len(cells) : cells[r].k = "frac"

IsHardened(n) == n \in Range(int_cols) \cup Range(age_cols)

\* whether hardening column col raises
HardenRaises(col) ==
    CastRaises([r \in 1..Len(col.cells) |-> ToNumericCell(col.cells[r])])

\* lines 200-220 on one column that is present
HardenColumn(col) ==
    IF IsHardened(col.name)
    THEN [col EXCEPT !.dtype = "Int64",
                     !.cells = [r \in 1..Len(col.cells) |->
                                   ToNumericCell(col.cells[r])]]
    ELSE IF col.name \in Range(cat_cols)
    THEN [col EXCEPT !.dtype = "string",
                     !.cells = [r \in 1..Len(col.cells) |->
                                   AsStringCell(col.cells[r])]]
    ELSE col

\* the type hardening loops: only the columns present are touched
HardenTypes(d) ==
    IF \E i \in 1..Len(d) : IsHardened(d[i].name) /\ HardenRaises(d[i])
    THEN [ok |-> FALSE, err |-> "TypeError", df |-> d]
    ELSE [ok |-> TRUE, err |-> "none",
          df |-> [i \in 1..Len(d) |-> HardenColumn(d[i])]]

\* missing = [c for c in required_cols if c not in df.columns]
MissingRequired(d) == SelectSeq(required_cols, LAMBDA n : ~HasCol(d, n))

\* s = df[c].dropna(); ((s < lo) | (s > hi)).any()
AnyOutside(col, lo, hi) ==
    \E r \in 1..Len(col.cells) :
        /\ ~IsNA(col.cells[r])
        /\ (col.cells[r].v < lo \/ col.cells[r].v > hi)

\* A plausible slip: strict bounds are written with <= and >=.
RangeViolation_Exclusive(d, n, lo, hi) ==
    HasCol(d, n) /\ AnyOutside(Col(d, n), lo + 1, hi - 1)

\* one sanity check of lines 242-250
RangeViolation(d, n, lo, hi) ==
    HasCol(d, n) /\ AnyOutside(Col(d, n), lo, hi)

\* A plausible slip: the sanity checks come before the required-column check.
ValidateContract_RangeFirst(d) ==
    IF RangeViolation(d, N_edad_madre, EdadMadreMin, EdadMadreMax)
    THEN "EdadMadreRange"
    ELSE IF RangeViolation(d, N_ano, AnoMin, AnoMax)
    THEN "AnoRange"
    ELSE IF MissingRequired(d) # << >> THEN "MissingColumns"
    ELSE "none"

\* A plausible slip: the required-column check does not raise.
ValidateContract_NoRequired(d) ==
    IF RangeViolation(d, N_edad_madre, EdadMadreMin, EdadMadreMax)
    THEN "EdadMadreRange"
    ELSE IF RangeViolation(d, N_ano, AnoMin, AnoMax)
    THEN "AnoRange"
    ELSE "none"

\* the contract checks: the first rule violated raises, "none" when all pass
ValidateContract(d) ==
    IF MissingRequired(d) # << >> THEN "MissingColumns"
    ELSE IF RangeViolation(d, N_edad_madre, EdadMadreMin, EdadMadreMax)
    THEN "EdadMadreRange"
    ELSE IF RangeViolation(d, N_ano, AnoMin, AnoMax)
    THEN "AnoRange"
    ELSE "none"

(***************************************************************************)
(* Bounds and inputs                                                       *)
(***************************************************************************)
MaxLen  == 4      \* longest raw header handed to the clean_col driver
NumRows == 1      \* data rows of a workbook

CleanAlphabet ==
    { "a", "A", "ntilde", "1", " ", "_", "(", "diaeresis", "bl_H" }
Headers == UNION { [1..k -> CleanAlphabet] : k \in 0..MaxLen }

\* raw header cells of the workbook, in sheet order
H_ano       == << "A", "ntilde", "o" >>
H_periodo   == N_periodo_de_reporte
H_sexo      == << "S", "e", "x", "o", " " >>
H_fecha     == N_fecha_nacimiento
H_madre     == << "E", "d", "a", "d", " ", " ", "M", "a", "d", "r", "e" >>
H_municipio == << "M", "u", "n", "i", "c", "i", "p", "i", "o", " ", "(",
                  "R", "e", "s", "i", "d", "e", "n", "c", "i", "a", ")" >>
H_padre     == << "e", "d", "a", "d", "_", "_", "p", "a", "d", "r", "e" >>
H_blank     == << >>
H_ano_dup   == << " ", "A", "N", "O" >>

Uniform(cell) == [r \in 1..NumRows |-> cell]

\* the workbook with every column; c chooses the cells of the four numeric
\* columns
FullSheet(c) ==
    << [idx |-> 1, header |-> H_ano,       cells |-> c.ano],
       [idx |-> 2, header |-> H_periodo,   cells |-> Uniform(c.aux[1])],
       [idx |-> 3, header |-> H_sexo,      cells |-> Uniform(StrCell(TRUE, WordBody))],
       [idx |-> 4, header |-> H_fecha,     cells |-> Uniform(StrCell(FALSE, WordBody))],
       [idx |-> 5, header |-> H_madre,     cells |-> c.madre],
       [idx |-> 6, header |-> H_municipio, cells |-> Uniform(StrCell(FALSE, WordBody))],
       [idx |-> 7, header |-> H_padre,     cells |-> Uniform(c.aux[2])],
       [idx |-> 8, header |-> H_blank,     cells |-> Uniform(StrCell(FALSE, WordBody))],
       [idx |-> 9, header |-> H_ano_dup,   cells |-> Uniform(IntCell(2024))] >>

Sheet(keep, c) == SelectSeq(FullSheet(c), LAMBDA col : col.idx \in keep)

\* which columns a workbook has
HeaderChoices ==
    { 1..8, 1..7, 2..8, (1..8) \ {5}, (1..8) \ {7}, (1..8) \ {3}, {1, 5, 8}, 1..9 }

AnoCells == { IntCell(AnoMin - 1), IntCell(AnoMin), IntCell(AnoMax),
              IntCell(AnoMax + 1), NA }
AgeCells == { IntCell(EdadMadreMin - 1), IntCell(EdadMadreMin),
              IntCell(EdadMadreMax), IntCell(EdadMadreMax + 1),
              StrCell(TRUE, EmptyBody) }
\* cells of periodo_de_reporte and edad_padre
AuxChoices == { << IntCell(1), NA >>,
                << StrCell(FALSE, WordBody), StrCell(TRUE, DigitsBody(35)) >>,
                << IntCell(1), StrCell(FALSE, FracBody) >>,
                << FracCell, IntCell(40) >> }
CellChoices == [ ano : [1..NumRows -> AnoCells], madre : [1..NumRows -> AgeCells],
                 aux : AuxChoices ]

RawTables == { Sheet(keep, c) : keep \in HeaderChoices, c \in CellChoices }

\* the few workbooks the source file holds in the two-stage specification
GoodCells == [ ano |-> Uniform(IntCell(AnoMin)),
               madre |-> Uniform(StrCell(TRUE, DigitsBody(35))),
               aux |-> << IntCell(1), NA >> ]
SrcTables ==
    { Sheet(1..8, GoodCells),
      Sheet(1..8, [GoodCells EXCEPT !.madre = Uniform(IntCell(EdadMadreMax + 1))]),
      Sheet(1..8, [GoodCells EXCEPT !.aux = << FracCell, NA >>]),
      Sheet(1..9, GoodCells) }

(***************************************************************************)
(* Files                                                                   *)
(***************************************************************************)
Absent      == [st |-> "absent"]
Partial     == [st |-> "partial"]
Complete(t) == [st |-> "complete", data |-> t]
Exists(f)   == f.st # "absent"          \* Path.exists()

\* the file name main() of silver_milagros.py reads
RawFileName == "Nacimientos_HGM.xlsx"
\* the values of source_xlsx_path.name
FileNames   == { "Nacimientos_HGM.xlsx", "Nacimientos_2025.xlsx" }

NoDf == << >>

(***************************************************************************)
(* clean_col driver                                                        *)
(***************************************************************************)
CleanOnce ==
    /\ cpc = "raw"
    /\ cleaned' = clean_col(cname)
    /\ cpc' = "once"
    /\ UNCHANGED << cname, recleaned, landingVars, silverVars >>

CleanTwice ==
    /\ cpc = "once"
    /\ recleaned' = clean_col(cleaned)
    /\ cpc' = "twice"
    /\ UNCHANGED << cname, cleaned, landingVars, silverVars >>

(***************************************************************************)
(* Landing Stage: main() of ingestion/milagros/births/milagros.py          *)
(* A run is split where the file system can be observed or an I/O error    *)
(* can end it: the checks, the copy, the touch of the marker.  The stages  *)
(* run one after the other, never overlapping.                             *)
(***************************************************************************)
SilverResting == { "idle", "Success", "Failed" }

\* A plausible slip: the idempotency check looks at a fixed file name.
AlreadyLanded_FixedName(name) == rawMarker /\ Exists(rawDir[RawFileName])

\* success_marker.exists() and dest_file.exists()
AlreadyLanded(name) == rawMarker /\ Exists(rawDir[name])

\* "Raw already present ...; skipping." and return
LandingSkip(name) ==
    /\ lpc = "idle" /\ spc \in SilverResting
    /\ AlreadyLanded(name)
    /\ lname' = name
    /\ lout' = "Skipped"
    /\ UNCHANGED << rawDir, rawMarker, lpc, lsrc, cleanVars, silverVars >>

\* the source file is absent: raise FileNotFoundError("Source XLSX not found")
\* (whether the source exists is an input of the run: this action or
\* LandingCopyBegin)
LandingSourceNotFound(name) ==
    /\ lpc = "idle" /\ spc \in SilverResting
    /\ ~AlreadyLanded(name)
    /\ lname' = name
    /\ lout' = "SourceNotFound"
    /\ UNCHANGED << rawDir, rawMarker, lpc, lsrc, cleanVars, silverVars >>

\* shutil.copy2 opens dest_file for writing: the file exists, not yet whole
LandingCopyBegin(name, src) ==
    /\ lpc = "idle" /\ spc \in SilverResting
    /\ ~AlreadyLanded(name)
    /\ lname' = name
    /\ lsrc' = src
    /\ rawDir' = [rawDir EXCEPT ![name] = Partial]
    /\ lpc' = "copying"
    /\ lout' = "Running"
    /\ UNCHANGED << rawMarker, cleanVars, silverVars >>

\* shutil.copy2 returns: content and metadata are copied
LandingCopyDone ==
    /\ lpc = "copying"
    /\ rawDir' = [rawDir EXCEPT ![lname] = Complete(lsrc)]
    /\ lpc' = "touch"
    /\ UNCHANGED << rawMarker, lname, lsrc, lout, cleanVars, silverVars >>

\* shutil.copy2 raises an I/O error part-way: main() ends, nothing is undone
LandingCopyFail ==
    /\ lpc = "copying"
    /\ lpc' = "idle"
    /\ lout' = "CopyFailed"
    /\ UNCHANGED << rawDir, rawMarker, lname, lsrc, cleanVars, silverVars >>

\* success_marker.touch()
LandingTouch ==
    /\ lpc = "touch"
    /\ rawMarker' = TRUE
    /\ lpc' = "idle"
    /\ lout' = "Success"
    /\ UNCHANGED << rawDir, lname, lsrc, cleanVars, silverVars >>

(***************************************************************************)
(* Transformation Stage: main() of silver/milagros/silver_milagros.py      *)
(***************************************************************************)
\* raw_file.exists()
RawFileExists == Exists(rawDir[RawFileName])

SilverFail(err) ==
    /\ spc' = "Failed"
    /\ sout' = err

\* if not raw_file.exists(): raise FileNotFoundError("Raw XLSX not found")
SilverSourceNotFound ==
    /\ spc \in SilverResting /\ lpc = "idle"
    /\ ~RawFileExists
    /\ SilverFail("SourceNotFound")
    /\ df' = NoDf
    /\ UNCHANGED << parquet, silverMarker, cleanVars, landingVars >>

\* config, mkdir of the silver directory, raw file found
SilverStart ==
    /\ spc \in SilverResting /\ lpc = "idle"
    /\ RawFileExists
    /\ spc' = "Load"
    /\ sout' = "Running"
    /\ df' = NoDf
    /\ UNCHANGED << parquet, silverMarker, cleanVars, landingVars >>

\* pd.read_excel on a workbook that is not whole raises
SilverLoadFail ==
    /\ spc = "Load"
    /\ rawDir[RawFileName].st = "partial"
    /\ SilverFail("BadFile")
    /\ UNCHANGED << df, parquet, silverMarker, cleanVars, landingVars >>

SilverLoad ==
    /\ spc = "Load"
    /\ rawDir[RawFileName].st = "complete"
    /\ df' = read_excel(rawDir[RawFileName].data)
    /\ spc' = "NormalizeSchema"
    /\ UNCHANGED << sout, parquet, silverMarker, cleanVars, landingVars >>

SilverNormalizeSchema ==
    /\ spc = "NormalizeSchema"
    /\ df' = NormalizeSchema(df)
    /\ spc' = "StandardizeValues"
    /\ UNCHANGED << sout, parquet, silverMarker, cleanVars, landingVars >>

SilverStandardizeValues ==
    /\ spc = "StandardizeValues"
    /\ StandardizeValues(df).ok
    /\ df' = StandardizeValues(df).df
    /\ spc' = "DropUnnamed"
    /\ UNCHANGED << sout, parquet, silverMarker, cleanVars, landingVars >>

SilverStandardizeValuesFail ==
    /\ spc = "StandardizeValues"
    /\ ~StandardizeValues(df).ok
    /\ SilverFail(StandardizeValues(df).err)
    /\ UNCHANGED << df, parquet, silverMarker, cleanVars, landingVars >>

SilverDropUnnamed ==
    /\ spc = "DropUnnamed"
    /\ df' = DropUnnamed(df)
    /\ spc' = "HardenTypes"
    /\ UNCHANGED << sout, parquet, silverMarker, cleanVars, landingVars >>

SilverHardenTypes ==
    /\ spc = "HardenTypes"
    /\ HardenTypes(df).ok
    /\ df' = HardenTypes(df).df
    /\ spc' = "ValidateContract"
    /\ UNCHANGED << sout, parquet, silverMarker, cleanVars, landingVars >>

SilverHardenTypesFail ==
    /\ spc = "HardenTypes"
    /\ ~HardenTypes(df).ok
    /\ SilverFail(HardenTypes(df).err)
    /\ UNCHANGED << df, parquet, silverMarker, cleanVars, landingVars >>

SilverValidateContract ==
    /\ spc = "ValidateContract"
    /\ ValidateContract(df) = "none"
    /\ spc' = "Persist"
    /\ UNCHANGED << df, sout, parquet, silverMarker, cleanVars, landingVars >>

\* raise ValueError(...)
SilverValidateContractFail ==
    /\ spc = "ValidateContract"
    /\ ValidateContract(df) # "none"
    /\ SilverFail(ValidateContract(df))
    /\ UNCHANGED << df, parquet, silverMarker, cleanVars, landingVars >>

\* df.to_parquet opens out_parquet for writing: an earlier file is truncated
SilverOpenParquet ==
    /\ spc = "Persist"
    /\ parquet' = Partial
    /\ spc' = "Writing"
    /\ UNCHANGED << df, sout, silverMarker, cleanVars, landingVars >>

\* df.to_parquet(out_parquet, index=False) returns
SilverWriteDone ==
    /\ spc = "Writing"
    /\ parquet' = Complete(df)
    /\ spc' = "Touch"
    /\ UNCHANGED << df, sout, silverMarker, cleanVars, landingVars >>

\* df.to_parquet raises an I/O error; the parquet engine may or may not
\* remove the file it was writing
SilverWriteFail ==
    /\ spc = "Writing"
    /\ parquet' \in { Partial, Absent }
    /\ SilverFail("IOError")
    /\ UNCHANGED << df, silverMarker, cleanVars, landingVars >>

\* success_marker.touch()
SilverTouch ==
    /\ spc = "Touch"
    /\ silverMarker' = TRUE
    /\ spc' = "Success"
    /\ sout' = "Success"
    /\ UNCHANGED << df, parquet, cleanVars, landingVars >>

(***************************************************************************)
(* Specifications                                                          *)
(***************************************************************************)
CleanOff ==
    /\ cname = << >> /\ cleaned = << >> /\ recleaned = << >> /\ cpc = "off"

LandingEmpty ==
    /\ rawDir = [n \in FileNames |-> Absent]
    /\ rawMarker = FALSE
    /\ lpc = "idle" /\ lname = "none" /\ lsrc = NoDf /\ lout = "none"

SilverEmpty ==
    /\ parquet = Absent /\ silverMarker = FALSE
    /\ spc = "idle" /\ df = NoDf /\ sout = "none"

LandingNext ==
    \/ \E name \in FileNames : LandingSkip(name)
    \/ \E name \in FileNames : LandingSourceNotFound(name)
    \/ \E name \in FileNames, src \in SrcTables : LandingCopyBegin(name, src)
    \/ LandingCopyDone
    \/ LandingCopyFail
    \/ LandingTouch

SilverNext ==
    \/ SilverSourceNotFound
    \/ SilverStart
    \/ SilverLoadFail
    \/ SilverLoad
    \/ SilverNormalizeSchema
    \/ SilverStandardizeValues
    \/ SilverStandardizeValuesFail
    \/ SilverDropUnnamed
    \/ SilverHardenTypes
    \/ SilverHardenTypesFail
    \/ SilverValidateContract
    \/ SilverValidateContractFail
    \/ SilverOpenParquet
    \/ SilverWriteDone
    \/ SilverWriteFail
    \/ SilverTouch

\* both stages, any order of runs, on one partition
Init == CleanOff /\ LandingEmpty /\ SilverEmpty
Next == LandingNext \/ SilverNext
Spec == Init /\ [][Next]_vars

\* the Transformation Stage alone, over every workbook of RawTables as the
\* landed raw file (or none, or one a failed copy left)
InitSilver ==
    /\ CleanOff /\ SilverEmpty
    /\ rawDir \in { [n \in FileNames |-> IF n = RawFileName THEN f ELSE Absent] :
                      f \in { Absent, Partial } \cup { Complete(t) : t \in RawTables } }
    /\ rawMarker = (rawDir[RawFileName].st = "complete")
    /\ lpc = "idle" /\ lname = RawFileName /\ lsrc = NoDf
    /\ lout = IF rawMarker THEN "Success"
              ELSE IF Exists(rawDir[RawFileName]) THEN "CopyFailed" ELSE "none"
SpecSilver == InitSilver /\ [][SilverNext]_vars

\* clean_col alone, over every header of Headers
InitClean ==
    /\ LandingEmpty /\ SilverEmpty
    /\ cname \in Headers
    /\ cleaned = << >> /\ recleaned = << >> /\ cpc = "raw"
CleanNext == CleanOnce \/ CleanTwice
SpecClean == InitClean /\ [][CleanNext]_vars

(***************************************************************************)
(* Properties                                                              *)
(***************************************************************************)
\* the run got past the contract checks, or they ended it; df is the table
\* the checks saw
ValidationDone ==
    \/ spc \in { "Persist", "Writing", "Touch", "Success" }
    \/ spc = "Failed" /\ sout \in { "MissingColumns", "EdadMadreRange",
                                    "AnoRange", "IOError" }

\* a non-missing cell of column n of table d is below lo or above hi
CellOutside(d, n, lo, hi) ==
    \E i \in 1..Len(d) : \E r \in 1..Len(d[i].cells) :
        /\ d[i].name = n
        /\ d[i].cells[r].k = "int"
        /\ (d[i].cells[r].v < lo \/ d[i].cells[r].v > hi)

\* every cell of column n of table d is missing or an integer in lo..hi
CellsWithin(d, n, lo, hi) ==
    \A i \in 1..Len(d) : \A r \in 1..Len(d[i].cells) :
        d[i].name = n =>
            \/ d[i].cells[r].k = "na"
            \/ d[i].cells[r].k = "int" /\ lo <= d[i].cells[r].v
                                       /\ d[i].cells[r].v <= hi

AllRequiredIn(d) ==
    \A n \in { N_ano, N_periodo_de_reporte, N_sexo, N_fecha_nacimiento,
               N_edad_madre, N_municipio_residencia, N_edad_padre } :
        \E i \in 1..Len(d) : d[i].name = n

\* C1: a Transformation Stage run that reaches Success has written the
\* parquet file and the marker, the persisted schema holds the seven required
\* columns, every non-missing edad_madre is in 10..60 and every non-missing
\* ano is in 2000..2035.
C1_SuccessMeetsContract ==
    spc = "Success" =>
        /\ parquet.st = "complete" /\ silverMarker
        /\ AllRequiredIn(parquet.data)
        /\ CellsWithin(parquet.data, N_edad_madre, 10, 60)
        /\ CellsWithin(parquet.data, N_ano, 2000, 2035)

\* a successful run whose persisted table has a boundary age, a boundary year
\* and had an unnamed column dropped
C1_Witness ==
    /\ spc = "Success" /\ parquet.st = "complete"
    /\ Len(parquet.data) = 7
    /\ Len(rawDir[RawFileName].data) = 8
    /\ Col(parquet.data, N_edad_madre).cells[1] = IntCell(60)
    /\ Col(parquet.data, N_ano).cells[1] = IntCell(2000)

\* C2 (as claimed): whenever a Transformation Stage run ends Failed, neither
\* the silver output file nor the silver _SUCCESS marker exists.
C2_FailedLeavesNothing ==
    spc = "Failed" => parquet.st = "absent" /\ ~silverMarker

\* C3 (as claimed): when the raw _SUCCESS marker exists the destination file
\* of a landing run that got past its checks is a complete copy, and a run
\* whose copy failed leaves no marker behind.
C3_MarkerImpliesComplete ==
    /\ (rawMarker /\ lout \in { "Running", "CopyFailed", "Success", "Skipped" })
          => rawDir[lname].st = "complete"
    /\ lout = "CopyFailed" => ~rawMarker

\* C4: right after a successful landing run, a run with the same file name
\* takes the skipping branch: no copy, no marker write, the landing
\* directory is as it was.
C4_LandingIdempotent ==
    [][ (lpc = "idle" /\ lout = "Success" /\ lout' # lout /\ lname' = lname)
          => (lout' = "Skipped" /\ lpc' = "idle"
               /\ rawDir' = rawDir /\ rawMarker' = rawMarker) ]_vars

\* a skipped run for a file name whose marker can only be its own
C4_Witness ==
    /\ lout = "Skipped" /\ lname = "Nacimientos_2025.xlsx"
    /\ rawMarker /\ rawDir[lname].st = "complete"
    /\ rawDir[RawFileName].st = "absent"

WellFormedName(s) ==
    /\ \A i \in 1..Len(s) : s[i] \in LowerAscii \cup Digits \cup {"_"}
    /\ s # << >> => s[1] # "_" /\ s[Len(s)] # "_"
    /\ \A i \in 1..(Len(s) - 1) : ~(s[i] = "_" /\ s[i + 1] = "_")

\* C5: clean_col is idempotent, and its result holds only lowercase ASCII
\* letters, digits and underscores, with no leading, trailing or doubled
\* underscore.
C5_CleanColIdempotent ==
    /\ cpc \in { "once", "twice" } => WellFormedName(cleaned)
    /\ cpc = "twice" => recleaned = cleaned

\* an accented, mixed-case header with inner whitespace, cleaned twice
C5_Witness ==
    /\ cpc = "twice"
    /\ cname = << "A", "ntilde", " ", "1" >>
    /\ cleaned = << "a", "n", "_", "1" >>

\* C6: with all required columns present, the contract check ends the run
\* with a range violation exactly when a non-missing edad_madre is below 10
\* or above 60 or a non-missing ano is below 2000 or above 2035.
C6_RangeExactlyInclusive ==
    (ValidationDone /\ AllRequiredIn(df)) =>
        ( (spc = "Failed" /\ sout \in { "EdadMadreRange", "AnoRange" })
          <=> ( \/ CellOutside(df, N_edad_madre, 10, 60)
                \/ CellOutside(df, N_ano, 2000, 2035) ) )

\* a run the year 2036 ended although the age, from a whitespace-only cell,
\* is missing
C6_Witness ==
    /\ spc = "Failed" /\ sout = "AnoRange" /\ AllRequiredIn(df)
    /\ Col(df, N_ano).cells[1] = IntCell(2036)
    /\ Col(df, N_edad_madre).cells[1] = NA
    /\ \E i \in 1..Len(rawDir[RawFileName].data) :
          /\ rawDir[RawFileName].data[i].header = H_madre
          /\ rawDir[RawFileName].data[i].cells[1] = StrCell(TRUE, EmptyBody)

\* C7 (as claimed): a table that lacks a required column and has an
\* out-of-range edad_madre or ano has the range violation reported.
C7_RangeCheckedDespiteMissing ==
    ( /\ spc = "Failed"
      /\ sout \in { "MissingColumns", "EdadMadreRange", "AnoRange" }
      /\ ~AllRequiredIn(df)
      /\ ( \/ CellOutside(df, N_edad_madre, 10, 60)
           \/ CellOutside(df, N_ano, 2000, 2035) ) )
    => sout \in { "EdadMadreRange", "AnoRange" }

\* C7 (amended): when a required column is missing the contract check ends
\* the run with the missing-columns error, whatever the values of edad_madre
\* and ano are.
C7_MissingColumnsFirst ==
    (ValidationDone /\ ~AllRequiredIn(df)) =>
        spc = "Failed" /\ sout = "MissingColumns"

\* a run ended by the missing-columns error on a table whose edad_madre is 61
C7_Witness ==
    /\ spc = "Failed" /\ sout = "MissingColumns"
    /\ ~AllRequiredIn(df)
    /\ CellOutside(df, N_edad_madre, 10, 60)

\* C8 (as claimed): HardenTypes never raises, and after it every cell of
\* ano, periodo_de_reporte, edad_madre and edad_padre is an integer or
\* missing.
C8_HardenNeverRaises ==
    /\ spc = "Failed" => sout # "TypeError"
    /\ spc = "ValidateContract" =>
          \A i \in 1..Len(df) : \A r \in 1..Len(df[i].cells) :
              df[i].name \in { N_ano, N_periodo_de_reporte, N_edad_madre,
                               N_edad_padre }
                  => df[i].cells[r].k \in { "int", "na" }

\* C9 (as claimed): the silver _SUCCESS marker exists only while the parquet
\* file is completely written.
C9_SilverMarkerImpliesComplete ==
    silverMarker => parquet.st = "complete"

\* C10 (as claimed): a Transformation Stage run fails with SourceNotFound
\* only when no Landing Stage run has succeeded for the partition.
C10_SilverFindsLandedFile ==
    (spc = "Failed" /\ sout = "SourceNotFound") => ~rawMarker

====
